---- MODULE Spec2Model ----
(***************************************************************************)
(* The OAuth2/PKCE authentication lifecycle of the Keycloak login          *)
(* applications: the Pinia auth store and the Keycloak service it drives.  *)
(*                                                                         *)
(* Four variants live in the repository and all are modelled:              *)
(*   "proxy"  : src/stores/authStore.js + src/services/csp-safe-keycloak.js*)
(*              (token exchange and refresh through the backend proxy)     *)
(*   "direct" : src/src/stores/authStore.js + src/unnamed/part_001         *)
(*              (token exchange directly with Keycloak, global guards)     *)
(*   "standalone" : src/src/services/csp-safe-keycloak.js, the service the *)
(*              application of src/src/components/Header.vue starts        *)
(*              without a store; it refreshes from a setInterval           *)
(*   "library" : src/src/services/keycloak.js, the service built on the    *)
(*              keycloak-js adapter; the adapter keeps the tokens and runs *)
(*              the protocol, the service arms the refresh interval        *)
(* The variant is fixed in the initial state.  Store functions whose code  *)
(* is the same in the two stores are defined once; the others carry the    *)
(* suffix _proxy or _direct; the functions of the third service carry the  *)
(* suffix _standalone, those of the fourth the suffix _library.            *)
(*                                                                         *)
(* JavaScript runs one synchronous block at a time: an action is a block,  *)
(* from the start of a call or the arrival of a network response up to the *)
(* next fetch the call awaits.  Each pending async call is a frame that    *)
(* records the fetch it awaits and the function that continues after it.   *)
(*                                                                         *)
(* login and loginWithGoogle send the page to the identity provider; the   *)
(* callback page it redirects back to is a new document, which keeps       *)
(* sessionStorage and localStorage and starts with fresh memory.           *)
(***************************************************************************)
EXTENDS Integers, Sequences, FiniteSets, TLC

\* null: "null" among strings, NONE among objects, 0 among numbers (the code
\* tests numbers only for truthiness, and 0 is as falsy as null)
NULL == "null"
NONE == [null |-> TRUE]

\* ---------------------------------------------------------------- bounds
MaxCalls == 3
MaxStarts == 2
MaxTokens == 2
MaxTicks == 3
MaxLogins == 2

\* ------------------------------------------------------- program constants
TickMs == 60 * 1000
StartMs == 10 * TickMs
RefreshLeadMs == 2 * 60 * 1000
ExpiringSoonMs == 5 * 60 * 1000
ExpiresInValues == {300, 420}
IntervalMs == 30000
ExpiryLeewayS == 30

Variants == {"proxy", "direct", "standalone", "library"}
Instances == {"store", "singleton"}
CallIds == 1..MaxCalls
TimerIds == 1..3
Kinds == {"config", "exchange", "refresh", "userinfo", "sso", "digest"}
Ops == {"initialize", "handleAuthCallback", "logout", "forceRefresh",
        "refreshUserProfile", "timer", "watch", "init", "login",
        "loginWithGoogle", "clearError"}

VARIABLES
  variant,                  \* which store/service pair is loaded
  now,                      \* Date.now()
  page,                     \* "loaded", or the place window.location.href was sent to
  href,                     \* the parameters of the authorization URL it was sent to
  logins,                   \* the calls of login and loginWithGoogle made in this tab
  url,                      \* the query parameters code and state of the visible URL
  sessionStorage,
  localStorage,
  store,                    \* the refs of the auth store
  keycloakService,          \* the store's `let keycloakService`
  svc,                      \* the fields of each CSPSafeKeycloakService instance
  globalCallbackProcessing,
  globalStoreInitialized,
  frames,                   \* the pending async calls
  timers,                   \* the pending setTimeout handles
  idp,                      \* the identity provider: tokens issued, code redeemed
  scenario,                 \* history: what the page was loaded with
  requests,                 \* history: requests sent, per entry point and kind
  started,                  \* history: calls started, per entry point
  thrown,                   \* history: the messages of the errors thrown
  concurrent,               \* history: entry points called while a call of theirs was pending
  ended                     \* history: what the last step ran and how it ended

vars == <<variant, now, page, href, logins, url, sessionStorage, localStorage, store,
          keycloakService, svc, globalCallbackProcessing,
          globalStoreInitialized, frames, timers, idp, scenario, requests,
          started, thrown, concurrent, ended>>

World ==
  [variant |-> variant, now |-> now, page |-> page, href |-> href,
   logins |-> logins, url |-> url, call |-> [login |-> 0, options |-> "none"],
   sessionStorage |-> sessionStorage, localStorage |-> localStorage,
   store |-> store, keycloakService |-> keycloakService, svc |-> svc,
   globalCallbackProcessing |-> globalCallbackProcessing,
   globalStoreInitialized |-> globalStoreInitialized,
   frames |-> frames, timers |-> timers, idp |-> idp, scenario |-> scenario,
   requests |-> requests, started |-> started, thrown |-> thrown,
   concurrent |-> concurrent, ended |-> ended]

Commit(w) ==
  /\ variant' = w.variant
  /\ now' = w.now
  /\ page' = w.page
  /\ href' = w.href
  /\ logins' = w.logins
  /\ url' = w.url
  /\ sessionStorage' = w.sessionStorage
  /\ localStorage' = w.localStorage
  /\ store' = w.store
  /\ keycloakService' = w.keycloakService
  /\ svc' = w.svc
  /\ globalCallbackProcessing' = w.globalCallbackProcessing
  /\ globalStoreInitialized' = w.globalStoreInitialized
  /\ frames' = w.frames
  /\ timers' = w.timers
  /\ idp' = w.idp
  /\ scenario' = w.scenario
  /\ requests' = w.requests
  /\ started' = w.started
  /\ thrown' = w.thrown
  /\ concurrent' = w.concurrent
  /\ ended' = w.ended

\* ------------------------------------------------------------ value shapes
Truthy(x) == x # NULL
TruthyObj(x) == x # NONE
TruthyNum(x) == x # 0

\* Number.prototype.toString and parseInt on the stored expiry
toString(n) == [str |-> n]
parseInt(s) == s.str

\* The token response of generation g: tokens are opaque, named by generation.
TokenNames == <<"t0", "t1", "t2", "t3", "t4", "t5", "t6", "t7">>
TokenSet(g, e, shape) ==
  [access_token |-> TokenNames[g + 1],
   refresh_token |-> IF shape = "norefresh" THEN NULL ELSE TokenNames[g + 1],
   id_token |-> IF shape = "noid" THEN NULL ELSE TokenNames[g + 1],
   expires_in |-> IF shape = "noexp" THEN 0 ELSE e]

ResponseShapes == {"full", "noexp", "noid", "norefresh"}

\* JSON.parse(atob(id_token.split('.')[1])): the claims issued with generation g
UserSub == "123"
DecodeIdToken(t) == [sub |-> UserSub, email |-> t]

\* The user object setTokens builds from the ID-token payload (id, not sub)
UserFromPayload(p) == [id |-> p.sub, sub |-> NULL, email |-> p.email]
\* A payload or a userinfo response assigned to user as it is (sub, not id)
UserFromClaims(p) == [id |-> NULL, sub |-> p.sub, email |-> p.email]

\* stale (history): a logout has completed since the frame sent its refresh request
IdleFrame == [op |-> "idle", pc |-> "", inst |-> "", code |-> NULL,
              verifier |-> NULL, stale |-> FALSE, login |-> 0,
              options |-> "none"]

FreshService ==
  [config |-> NONE, tokens |-> NONE, accessToken |-> NULL, refreshToken |-> NULL,
   idToken |-> NULL, userInfo |-> NONE, isInitialized |-> FALSE,
   isProcessingCallback |-> FALSE, refreshTimer |-> 0, keycloak |-> NULL]

FreshStore ==
  [accessToken |-> NULL, refreshToken |-> NULL, idToken |-> NULL, user |-> NONE,
   isAuthenticated |-> FALSE, isLoading |-> FALSE, isInitialized |-> FALSE,
   isInitializing |-> FALSE, error |-> NULL, tokenExpiresAt |-> 0,
   sessionTimeout |-> 0, isTokenExpired |-> TRUE]

\* ------------------------------------------------------- auth store: helpers

\* computed isTokenExpired: Vue caches a computed value and evaluates it again
\* only after tokenExpiresAt, its one reactive dependency, has changed; Date.now()
\* is read at that evaluation.  store.isTokenExpired is the cached value.
isTokenExpired(w) == w.store.isTokenExpired

setTokenExpiresAt(w, v) ==
  IF v = w.store.tokenExpiresAt THEN w
  ELSE [w EXCEPT !.store.tokenExpiresAt = v,
                 !.store.isTokenExpired = IF ~TruthyNum(v) THEN TRUE ELSE w.now >= v]

\* isTokenExpiringSoon with the lead time of the refresh timer
isTokenExpiringSoon_refreshLead(w) ==
  IF ~TruthyNum(w.store.tokenExpiresAt) THEN FALSE
  ELSE w.now >= w.store.tokenExpiresAt - RefreshLeadMs

\* computed isTokenExpiringSoon, evaluated at the current time
isTokenExpiringSoon(w) ==
  IF ~TruthyNum(w.store.tokenExpiresAt) THEN FALSE
  ELSE w.now >= w.store.tokenExpiresAt - ExpiringSoonMs

persistUserData(w) ==
  IF TruthyObj(w.store.user)
  THEN [w EXCEPT !.localStorage.auth_user = w.store.user]
  ELSE w

persistAuthData(w) ==
  LET w1 == IF Truthy(w.store.accessToken)
            THEN [w EXCEPT !.localStorage.auth_tokens =
                     [access_token |-> w.store.accessToken,
                      refresh_token |-> w.store.refreshToken,
                      id_token |-> w.store.idToken]]
            ELSE w
      w2 == IF TruthyNum(w1.store.tokenExpiresAt)
            THEN [w1 EXCEPT !.localStorage.auth_expires_at =
                     toString(w1.store.tokenExpiresAt)]
            ELSE w1
  IN persistUserData(w2)

\* setTokens that adds expires_in to Date.now() as if it were milliseconds
setTokens_seconds(w, tokens) ==
  LET w1 == [w EXCEPT !.store.accessToken = tokens.access_token,
                      !.store.refreshToken = tokens.refresh_token,
                      !.store.idToken = tokens.id_token]
      w2 == IF TruthyNum(tokens.expires_in)
            THEN setTokenExpiresAt(w1, w1.now + tokens.expires_in)
            ELSE w1
      w3 == IF Truthy(tokens.id_token)
            THEN [w2 EXCEPT !.store.user =
                     UserFromPayload(DecodeIdToken(tokens.id_token))]
            ELSE w2
  IN persistAuthData(w3)

setTokens(w, tokens) ==
  LET w1 == [w EXCEPT !.store.accessToken = tokens.access_token,
                      !.store.refreshToken = tokens.refresh_token,
                      !.store.idToken = tokens.id_token]
      w2 == IF TruthyNum(tokens.expires_in)
            THEN setTokenExpiresAt(w1, w1.now + tokens.expires_in * 1000)
            ELSE w1
      w3 == IF Truthy(tokens.id_token)
            THEN [w2 EXCEPT !.store.user =
                     UserFromPayload(DecodeIdToken(tokens.id_token))]
            ELSE w2
  IN persistAuthData(w3)

\* clearTimeout and clearInterval
clearTimeout(w, h) == [w EXCEPT !.timers = {t \in w.timers : t.id # h}]

\* clearAuthState without its three localStorage.removeItem calls
clearAuthState_keepsStorage(w) ==
  LET w1 == [w EXCEPT !.store.accessToken = NULL,
                      !.store.refreshToken = NULL,
                      !.store.idToken = NULL,
                      !.store.user = NONE,
                      !.store.isAuthenticated = FALSE]
      w2 == [setTokenExpiresAt(w1, 0) EXCEPT !.store.error = NULL]
  IN IF TruthyNum(w2.store.sessionTimeout)
     THEN [clearTimeout(w2, w2.store.sessionTimeout)
             EXCEPT !.store.sessionTimeout = 0]
     ELSE w2

clearAuthState(w) ==
  LET w1 == [w EXCEPT !.store.accessToken = NULL,
                      !.store.refreshToken = NULL,
                      !.store.idToken = NULL,
                      !.store.user = NONE,
                      !.store.isAuthenticated = FALSE]
      w2 == [setTokenExpiresAt(w1, 0) EXCEPT !.store.error = NULL]
      w3 == [w2 EXCEPT !.localStorage.auth_tokens = NONE,
                       !.localStorage.auth_user = NONE,
                       !.localStorage.auth_expires_at = NONE]
  IN IF TruthyNum(w3.store.sessionTimeout)
     THEN [clearTimeout(w3, w3.store.sessionTimeout)
             EXCEPT !.store.sessionTimeout = 0]
     ELSE w3

\* the handle setTimeout or setInterval returns: a fresh one, never one still
\* pending or still held
FreshHandle(w) ==
  LET free == {i \in TimerIds : /\ i # w.store.sessionTimeout
                                /\ i # w.svc["singleton"].refreshTimer
                                /\ \A t \in w.timers : t.id # i}
  IN CHOOSE i \in free : \A j \in free : i <= j

\* sessionTimeout.value = setTimeout(..., delay); every is 0 for a timeout
setTimeout(w, delay) ==
  [w EXCEPT !.timers = @ \cup {[id |-> FreshHandle(w), at |-> w.now + delay,
                                every |-> 0]},
            !.store.sessionTimeout = FreshHandle(w)]

setupTokenRefresh(w) ==
  LET w1 == IF TruthyNum(w.store.sessionTimeout)
            THEN clearTimeout(w, w.store.sessionTimeout)
            ELSE w
      refreshTime == w1.store.tokenExpiresAt - w1.now - RefreshLeadMs
  IN IF ~TruthyNum(w1.store.tokenExpiresAt) THEN w1
     ELSE IF refreshTime > 0 THEN setTimeout(w1, refreshTime)
     ELSE w1

\* loadPersistedState: the state after it; the direct store also returns the
\* validity it computed, which is the value it leaves in isAuthenticated.
loadPersistedState(w) ==
  LET ls == w.localStorage
      w1 == IF TruthyObj(ls.auth_tokens)
            THEN [w EXCEPT !.store.accessToken = ls.auth_tokens.access_token,
                           !.store.refreshToken = ls.auth_tokens.refresh_token,
                           !.store.idToken = ls.auth_tokens.id_token]
            ELSE w
      w2 == IF TruthyObj(ls.auth_expires_at)
            THEN setTokenExpiresAt(w1, parseInt(ls.auth_expires_at))
            ELSE w1
      w3 == IF TruthyObj(ls.auth_user)
            THEN [w2 EXCEPT !.store.user = ls.auth_user]
            ELSE w2
  IN [w3 EXCEPT !.store.isAuthenticated =
          Truthy(w3.store.accessToken) /\ ~isTokenExpired(w3)]

\* --------------------------------------------------- results of async code
\* What a piece of code does up to the point it stops: it returned ("ok"), it
\* threw ("throw", with the message) or it awaits a fetch ("await", with the
\* kind of request).
Ok(w) == [w |-> w, st |-> "ok", msg |-> NULL]
Throw(w, m) == [w |-> [w EXCEPT !.thrown = @ \cup {m}], st |-> "throw", msg |-> m]
\* the early return of a call that found nothing to do
Noop(w) == [w |-> w, st |-> "noop", msg |-> NULL]
Await(w, pc) == [w |-> w, st |-> "await", msg |-> pc]

\* ----------------------------------------------------- the Keycloak service

\* generateState() and generateCodeVerifier() return fresh random strings: the
\* login call of ordinal n gets the names of index n + 1 (index 1 is the login
\* that preceded the first load of the page); the identity provider answers a
\* login with the code of the same index
StateNames == <<"s1", "s2", "s3", "s4", "s5">>
VerifierNames == <<"v1", "v2", "v3", "v4", "v5">>
CodeNames == <<"c1", "c2", "c3", "c4", "c5">>

\* base64url(SHA-256(verifier))
generateCodeChallenge(verifier) == [sha256 |-> verifier]

\* the options objects a caller passes to login and loginWithGoogle: the
\* default {} and an object that names parameters the service sets itself
LoginOptions == {"none", "overrides"}
OptionsObject(name) ==
  IF name = "overrides" THEN [response_type |-> "token", state |-> "app-state"]
  ELSE [k \in {} |-> NULL]

\* new URLSearchParams({...params, ...options}): an option replaces the
\* parameter of its name
Spread(params, options) ==
  [k \in DOMAIN params |->
     IF k \in DOMAIN options THEN options[k] ELSE params[k]]

\* window.location.href = loginUrl: the page is sent to the authorization
\* endpoint, which has then seen the request of this login and can answer it
\* with a code when it asked for one
Navigate(w, params, n) ==
  [w EXCEPT !.href = params,
            !.page = "login",
            !.idp.requested = IF params.response_type = "code"
                              THEN @ \cup {n} ELSE @]

\* login and loginWithGoogle of the service from
\* `await this.generateCodeChallenge(codeVerifier)` on: the pending authorization is stored, the
\* authorization URL is built from this.config and the page is sent to it
login_service_digest(w, i, google) ==
  LET n == w.call.login + 1
      w1 == [w EXCEPT !.sessionStorage =
               [keycloak_state |-> StateNames[n],
                keycloak_code_verifier |-> VerifierNames[n],
                keycloak_redirect_uri |-> "origin/"]]
      params == [client_id |-> IF TruthyObj(w.svc[i].config)
                               THEN w.svc[i].config.clientId ELSE NULL,
                 redirect_uri |-> "origin/",
                 response_type |-> "code",
                 scope |-> "openid profile email",
                 state |-> StateNames[n],
                 code_challenge |-> generateCodeChallenge(VerifierNames[n]),
                 code_challenge_method |-> "S256",
                 kc_idp_hint |-> IF google THEN "google" ELSE NULL,
                 prompt |-> IF google THEN "login" ELSE NULL]
  IN IF ~TruthyObj(w.svc[i].config) THEN Throw(w1, "TypeError: config is null")
     ELSE Ok(Navigate(w1, Spread(params, OptionsObject(w.call.options)),
                      w.call.login))

isOAuthCallback(w) == Truthy(w.url.code) /\ Truthy(w.url.state)

removeOAuthSessionData(w) ==
  [w EXCEPT !.sessionStorage =
     [keycloak_state |-> NULL, keycloak_code_verifier |-> NULL,
      keycloak_redirect_uri |-> NULL]]

replaceState(w) == [w EXCEPT !.url = [code |-> NULL, state |-> NULL]]

\* part_001 clearTokens
clearTokens(w, i) ==
  LET w1 == [w EXCEPT !.svc[i].tokens = NONE,
                      !.svc[i].accessToken = NULL,
                      !.svc[i].refreshToken = NULL,
                      !.svc[i].idToken = NULL,
                      !.svc[i].userInfo = NONE,
                      !.localStorage.keycloak_tokens = NONE,
                      !.localStorage.keycloak_token_expiry = NONE]
  IN removeOAuthSessionData(w1)

\* part_001 loadPersistedTokens
loadPersistedTokens(w, i) ==
  LET tokens == w.localStorage.keycloak_tokens
      expiryTime == IF TruthyObj(w.localStorage.keycloak_token_expiry)
                    THEN parseInt(w.localStorage.keycloak_token_expiry)
                    ELSE 0
  IN IF TruthyObj(tokens) /\ Truthy(tokens.access_token)
     THEN IF w.now < expiryTime
          THEN [w EXCEPT !.svc[i].tokens = tokens,
                         !.svc[i].accessToken = tokens.access_token,
                         !.svc[i].refreshToken = tokens.refresh_token,
                         !.svc[i].idToken = tokens.id_token,
                         !.svc[i].userInfo =
                            IF Truthy(tokens.id_token)
                            THEN DecodeIdToken(tokens.id_token)
                            ELSE w.svc[i].userInfo]
          ELSE clearTokens(w, i)
     ELSE w

\* handleOAuthCallback up to its fetch: src/services/csp-safe-keycloak.js
handleOAuthCallback_proxy(w, i) ==
  IF ~Truthy(w.url.code) THEN Throw(w, "No authorization code received")
  ELSE IF w.url.state # w.sessionStorage.keycloak_state
       THEN Throw(w, "State mismatch - possible CSRF attack")
  ELSE IF ~Truthy(w.sessionStorage.keycloak_code_verifier)
       THEN Throw(w, "No code verifier found in session")
  ELSE Await(w, "exchange")

\* ... and from the response of /api/token-exchange on
handleOAuthCallback_proxy_response(w, i, resp) ==
  IF ~resp.ok THEN Throw(w, "Token exchange failed")
  ELSE Ok(replaceState(removeOAuthSessionData(
            [w EXCEPT !.svc[i].tokens = resp.tokens])))

\* the catch block of part_001 handleOAuthCallback
handleOAuthCallback_direct_catch(w, i, m) ==
  Throw([clearTokens(w, i) EXCEPT !.globalCallbackProcessing = FALSE,
                                  !.svc[i].isProcessingCallback = FALSE], m)

\* handleOAuthCallback up to its fetch: part_001
handleOAuthCallback_direct(w, i) ==
  IF ~isOAuthCallback(w) THEN Ok(w)
  ELSE IF w.url.state # w.sessionStorage.keycloak_state
       THEN handleOAuthCallback_direct_catch(w, i, "Invalid state parameter")
  ELSE Await(w, "exchange")

\* part_001's handleOAuthCallback leaving the processing flags set on success
handleOAuthCallback_direct_response_keepsFlags(w, i, resp) ==
  IF ~resp.ok
  THEN handleOAuthCallback_direct_catch(w, i, "Token exchange failed")
  ELSE Ok(replaceState(removeOAuthSessionData(
            [w EXCEPT !.svc[i].tokens = resp.tokens,
                      !.svc[i].accessToken = resp.tokens.access_token,
                      !.svc[i].refreshToken = resp.tokens.refresh_token,
                      !.svc[i].idToken = resp.tokens.id_token,
                      !.localStorage.keycloak_tokens = resp.tokens])))

\* ... and from the response of the token endpoint on
handleOAuthCallback_direct_response(w, i, resp) ==
  IF ~resp.ok
  THEN handleOAuthCallback_direct_catch(w, i, "Token exchange failed")
  ELSE
    LET tokens == resp.tokens
        w1 == [w EXCEPT !.svc[i].tokens = tokens,
                        !.svc[i].accessToken = tokens.access_token,
                        !.svc[i].refreshToken = tokens.refresh_token,
                        !.svc[i].idToken = tokens.id_token,
                        !.localStorage.keycloak_tokens = tokens]
        w2 == IF TruthyNum(tokens.expires_in)
              THEN [w1 EXCEPT !.localStorage.keycloak_token_expiry =
                       toString(w1.now + tokens.expires_in * 1000)]
              ELSE w1
        w3 == IF Truthy(tokens.id_token)
              THEN [w2 EXCEPT !.svc[i].userInfo = DecodeIdToken(tokens.id_token)]
              ELSE w2
        w4 == replaceState(removeOAuthSessionData(w3))
    IN Ok([w4 EXCEPT !.globalCallbackProcessing = FALSE,
                     !.svc[i].isProcessingCallback = FALSE])

\* the catch block of part_001 init
init_direct_catch(r, i) ==
  IF r.st = "throw"
  THEN Throw([r.w EXCEPT !.globalCallbackProcessing = FALSE,
                         !.svc[i].isProcessingCallback = FALSE], r.msg)
  ELSE r

\* the end of init once callback processing has returned
init_done(r, i) ==
  IF r.st = "ok" THEN Ok([r.w EXCEPT !.svc[i].isInitialized = TRUE]) ELSE r

\* init up to its first await: loadConfig
init(w, i) ==
  IF w.variant \in {"standalone", "library"} THEN Await(w, "config")
  ELSE IF w.svc[i].isInitialized THEN Ok(w)
  ELSE Await(w, "config")

\* init from the result of loadConfig on: src/services/csp-safe-keycloak.js
init_proxy_config(w, i, resp) ==
  IF ~resp.ok THEN Throw(w, "Unable to load authentication configuration")
  ELSE LET w1 == [w EXCEPT !.svc[i].config = resp.config]
       IN IF Truthy(w1.url.code) /\ Truthy(w1.url.state)
          THEN init_done(handleOAuthCallback_proxy(w1, i), i)
          ELSE init_done(Ok(w1), i)

\* part_001's init without its test of the two processing flags
init_direct_config_unguarded(w, i, resp) ==
  LET w1 == [w EXCEPT !.svc[i].config = resp.config]
  IN IF isOAuthCallback(w1)
     THEN init_direct_catch(init_done(
            handleOAuthCallback_direct(
              [w1 EXCEPT !.globalCallbackProcessing = TRUE,
                         !.svc[i].isProcessingCallback = TRUE], i), i), i)
     ELSE init_done(Ok(loadPersistedTokens(w1, i)), i)

\* init from the result of loadConfig on: part_001
init_direct_config(w, i, resp) ==
  LET w1 == [w EXCEPT !.svc[i].config = resp.config]
      busy == w1.globalCallbackProcessing \/ w1.svc[i].isProcessingCallback
  IN IF isOAuthCallback(w1) /\ ~busy
     THEN init_direct_catch(init_done(
            handleOAuthCallback_direct(
              [w1 EXCEPT !.globalCallbackProcessing = TRUE,
                         !.svc[i].isProcessingCallback = TRUE], i), i), i)
     ELSE IF isOAuthCallback(w1) /\ busy
     THEN init_done(Ok(w1), i)
     ELSE init_done(Ok(loadPersistedTokens(w1, i)), i)

init_config(w, i, resp) ==
  IF w.variant = "proxy" THEN init_proxy_config(w, i, resp)
  ELSE init_direct_config(w, i, resp)

\* init from the response of the token exchange on
init_exchange(w, i, resp) ==
  IF w.variant = "proxy"
  THEN init_done(handleOAuthCallback_proxy_response(w, i, resp), i)
  ELSE init_direct_catch(
         init_done(handleOAuthCallback_direct_response(w, i, resp), i), i)

\* refreshToken up to its fetch.  The proxy service posts to /api/token-refresh;
\* part_001 builds the URL from this.config, which throws while config is null.
refreshToken(w, i, rt) ==
  IF ~Truthy(rt) THEN Throw(w, "No refresh token provided")
  ELSE IF w.variant = "direct" /\ ~TruthyObj(w.svc[i].config)
       THEN Throw(w, "TypeError: config is null")
  ELSE Await(w, "refresh")

refreshToken_response(w, i, resp) ==
  IF ~resp.ok THEN Throw(w, "Token refresh failed")
  ELSE Ok([w EXCEPT !.svc[i].tokens = resp.tokens])

\* getUserInfo up to its fetch: the URL is built from this.config
getUserInfo(w, i) ==
  IF ~(TruthyObj(w.svc[i].tokens) /\ Truthy(w.svc[i].tokens.access_token))
  THEN Throw(w, "No access token available")
  ELSE IF ~TruthyObj(w.svc[i].config)
       THEN Throw(w, "TypeError: config is null")
  ELSE Await(w, "userinfo")

getUserInfo_response(w, i, resp) ==
  IF ~resp.ok THEN Throw(w, "Failed to get user info") ELSE Ok(w)

\* logout of the service: src/services/csp-safe-keycloak.js
logout_service_proxy(w, i) ==
  IF ~TruthyObj(w.svc[i].config) THEN Throw(w, "TypeError: config is null")
  ELSE Ok([w EXCEPT !.page = "logout"])

\* logout of the service: part_001
logout_service_direct(w, i) ==
  IF ~TruthyObj(w.svc[i].config) THEN Ok(clearTokens(w, i))
  ELSE Ok([clearTokens(w, i) EXCEPT !.page = "logout"])

\* ------------------------------------- src/src/services/csp-safe-keycloak.js

\* JSON.parse(atob(access_token.split('.')[1])): the exp claim, in seconds, that
\* the identity provider put into the access token
Generation(t) == CHOOSE g \in 0..(Len(TokenNames) - 1) : TokenNames[g + 1] = t
DecodeAccessToken(w, t) == [exp |-> w.idp.exp[Generation(t) + 1]]

isTokenExpired_standalone(w, i) ==
  IF ~(TruthyObj(w.svc[i].tokens) /\ Truthy(w.svc[i].tokens.access_token))
  THEN TRUE
  ELSE DecodeAccessToken(w, w.svc[i].tokens.access_token).exp
         <= (w.now \div 1000) + ExpiryLeewayS

storeTokens(w, tokens) ==
  [w EXCEPT !.localStorage.keycloak_tokens =
     [access_token |-> tokens.access_token, refresh_token |-> tokens.refresh_token,
      id_token |-> tokens.id_token, expires_in |-> tokens.expires_in,
      stored_at |-> w.now]]

clearStoredTokens(w) == [w EXCEPT !.localStorage.keycloak_tokens = NONE]

cleanUrl(w) == [w EXCEPT !.url = [code |-> NULL, state |-> NULL]]

\* the timers without the interval the service holds, if it holds one
clearRefreshTimer(w, i) ==
  IF TruthyNum(w.svc[i].refreshTimer)
  THEN clearTimeout(w, w.svc[i].refreshTimer)
  ELSE w

\* this.refreshTimer = setInterval(..., 30000)
setInterval(w, i) ==
  [w EXCEPT !.timers = @ \cup {[id |-> FreshHandle(w), at |-> w.now + IntervalMs,
                                every |-> IntervalMs]},
            !.svc[i].refreshTimer = FreshHandle(w)]

setupTokenRefresh_standalone(w, i) == setInterval(clearRefreshTimer(w, i), i)

\* updateToken up to its fetch
updateToken(w, i) ==
  IF ~(TruthyObj(w.svc[i].tokens) /\ Truthy(w.svc[i].tokens.refresh_token))
  THEN Throw(w, "No refresh token available")
  ELSE Await(w, "refresh")

\* ... and from the response of the token endpoint on
updateToken_response(w, i, resp) ==
  IF ~resp.ok
  THEN Throw([clearStoredTokens(w) EXCEPT !.svc[i].tokens = NONE],
             "Token refresh failed")
  ELSE Ok(storeTokens([w EXCEPT !.svc[i].tokens = resp.tokens], resp.tokens))

\* the setInterval callback: what follows `await this.updateToken()`
intervalCallback_after(r, i) ==
  IF r.st = "throw"
  THEN Ok([clearStoredTokens(r.w) EXCEPT !.svc[i].tokens = NONE])
  ELSE r

intervalCallback(w, i) ==
  IF isTokenExpired_standalone(w, i)
  THEN intervalCallback_after(updateToken(w, i), i)
  ELSE Ok(w)

\* handleOAuthCallback(code, state) up to its fetch
handleOAuthCallback_standalone(w, i) ==
  IF w.url.state # w.sessionStorage.keycloak_state
  THEN Throw(w, "Invalid state parameter - possible CSRF attack")
  ELSE IF ~Truthy(w.sessionStorage.keycloak_code_verifier)
       THEN Throw(w, "Missing code verifier")
  ELSE Await(w, "exchange")

\* ... and from the response of /api/token-exchange on
handleOAuthCallback_standalone_response(w, i, resp) ==
  IF ~resp.ok THEN Throw(w, "Token exchange failed")
  ELSE Ok(setupTokenRefresh_standalone(
            removeOAuthSessionData(
              storeTokens([w EXCEPT !.svc[i].tokens = resp.tokens], resp.tokens)),
            i))

\* the catch block of init
init_standalone_catch(r, i) ==
  IF r.st = "throw"
  THEN Throw([r.w EXCEPT !.svc[i].isInitialized = TRUE], r.msg)
  ELSE r

\* init after handleOAuthCallback has returned: cleanUrl(), return true
init_standalone_afterCallback(r, i) ==
  init_standalone_catch(IF r.st = "ok" THEN Ok(cleanUrl(r.w)) ELSE r, i)

\* init from the answer to its fetch of /api/keycloak-config on; a failure of
\* that fetch is caught and the built-in configuration stays
init_standalone_afterConfig(w, i) ==
  IF Truthy(w.url.code)
  THEN init_standalone_afterCallback(handleOAuthCallback_standalone(w, i), i)
  ELSE IF /\ TruthyObj(w.localStorage.keycloak_tokens)
          /\ Truthy(w.localStorage.keycloak_tokens.access_token)
       THEN Await(w, "userinfo")
  ELSE Ok([w EXCEPT !.svc[i].isInitialized = TRUE])

init_standalone_config(w, i, resp) ==
  init_standalone_afterConfig(
    IF resp.ok THEN [w EXCEPT !.svc[i].config = resp.config] ELSE w, i)

init_standalone_exchange(w, i, resp) ==
  init_standalone_afterCallback(
    handleOAuthCallback_standalone_response(w, i, resp), i)

\* init from the answer to validateToken on
init_standalone_validated(w, i, resp) ==
  IF resp.ok
  THEN Ok(setupTokenRefresh_standalone(
            [w EXCEPT !.svc[i].tokens = w.localStorage.keycloak_tokens], i))
  ELSE Ok([clearStoredTokens(w) EXCEPT !.svc[i].isInitialized = TRUE])

\* ---------------------------------------- src/src/services/keycloak.js
\* setupTokenRefresh: setInterval(..., 30000); the handle it returns is dropped
\* and no interval armed before is cleared
setupTokenRefresh_library(w, i) ==
  IF ~Truthy(w.svc[i].keycloak) THEN w
  ELSE [w EXCEPT !.timers = @ \cup {[id |-> FreshHandle(w),
                                      at |-> w.now + IntervalMs,
                                      every |-> IntervalMs]}]

\* init from the answer to its fetch of /api/keycloak-config on, up to
\* `await this.keycloak.init(initOptions)`; a failure of the fetch is caught
init_library_config(w, i, resp) ==
  Await([w EXCEPT !.svc[i].config = IF resp.ok THEN resp.config ELSE @,
                  !.svc[i].keycloak = "Keycloak"], "sso")

\* ... and from the settling of keycloak.init on: the adapter resolves with
\* `authenticated` or rejects
init_library_sso(w, i, resp) ==
  IF ~resp.ok THEN Throw(w, "Keycloak initialization failed")
  ELSE Ok(setupTokenRefresh_library([w EXCEPT !.svc[i].isInitialized = TRUE], i))

\* the setInterval callback: isTokenExpired and updateToken are the adapter's,
\* and what they throw is caught and logged
intervalCallback_library(w, i) == Ok(w)

\* ------------------------------------------------------ auth store: actions

\* initializeKeycloak: the service is created and assigned before init() is
\* awaited, so a second caller gets the instance back while init() is pending.
initializeKeycloak(w) ==
  IF w.keycloakService = NULL
  THEN init([w EXCEPT !.keycloakService = "store",
                      !.svc["store"] = FreshService], "store")
  ELSE Ok(w)

\* logout of the store.  It awaits no fetch and catches what the service throws.
\* the statements of its try block
logout_try(w, redirectToKeycloak) ==
  IF redirectToKeycloak /\ w.keycloakService # NULL
  THEN IF w.variant = "direct" THEN logout_service_direct(w, "store")
       ELSE logout_service_proxy(w, "store")
  ELSE Ok(w)

\* its catch block (src/src/stores/authStore.js also resets the global flag)
logout_catch(r) ==
  IF r.st = "throw"
  THEN [clearAuthState(r.w) EXCEPT !.globalStoreInitialized =
                                      IF r.w.variant = "direct" THEN FALSE ELSE @]
  ELSE r.w

\* its finally block; the refresh requests in flight are marked stale (history)
logout_finally(w) ==
  [w EXCEPT !.store.isLoading = FALSE,
            !.frames = [c \in CallIds |->
                          IF @[c].pc = "refresh"
                          THEN [@[c] EXCEPT !.stale = TRUE] ELSE @[c]]]

logout(w, redirectToKeycloak) ==
  logout_finally(logout_catch(logout_try(
    [clearAuthState([w EXCEPT !.store.isLoading = TRUE])
       EXCEPT !.globalStoreInitialized = IF w.variant = "direct" THEN FALSE ELSE @],
    redirectToKeycloak)))

\* logout(): the default of redirectToKeycloak is true in src/stores/authStore.js
\* and false in src/src/stores/authStore.js
logout_default(w) == logout(w, w.variant = "proxy")

refreshAccessToken_catch(r) == Throw(logout(r.w, FALSE), r.msg)

refreshAccessToken_afterK(k) ==
  IF k.st = "await" THEN k
  ELSE IF k.st = "throw" THEN refreshAccessToken_catch(k)
  ELSE LET r == refreshToken(k.w, "store", k.w.store.refreshToken)
       IN IF r.st = "throw" THEN refreshAccessToken_catch(r) ELSE r

refreshAccessToken(w) ==
  IF ~Truthy(w.store.refreshToken) THEN Throw(w, "No refresh token available")
  ELSE refreshAccessToken_afterK(initializeKeycloak(w))

refreshAccessToken_response(w, resp) ==
  LET r == refreshToken_response(w, "store", resp)
  IN IF r.st = "throw" THEN refreshAccessToken_catch(r)
     ELSE Ok(setTokens(r.w, resp.tokens))

\* refreshUserProfile whose catch block rethrows the error of getUserInfo
refreshUserProfile_afterK_rethrows(k) ==
  IF k.st = "await" THEN k
  ELSE IF k.st = "throw" THEN k
  ELSE getUserInfo(k.w, "store")

refreshUserProfile_afterK(k) ==
  IF k.st = "await" THEN k
  ELSE IF k.st = "throw" THEN Ok(k.w)
  ELSE LET r == getUserInfo(k.w, "store")
       IN IF r.st = "throw" THEN Ok(r.w) ELSE r

refreshUserProfile(w) ==
  IF ~Truthy(w.store.accessToken) THEN Ok(w)
  ELSE refreshUserProfile_afterK(initializeKeycloak(w))

\* refreshUserProfile whose catch block treats the failure as the end of the
\* session
refreshUserProfile_response_clears(w, resp) ==
  LET r == getUserInfo_response(w, "store", resp)
  IN IF r.st = "throw" THEN Ok(clearAuthState(r.w))
     ELSE Ok(persistUserData(
               [r.w EXCEPT !.store.user = UserFromClaims(resp.userInfo)]))

refreshUserProfile_response(w, resp) ==
  LET r == getUserInfo_response(w, "store", resp)
  IN IF r.st = "throw" THEN Ok(r.w)
     ELSE Ok(persistUserData(
               [r.w EXCEPT !.store.user = UserFromClaims(resp.userInfo)]))

\* ---- initialize: src/stores/authStore.js
\* initialize whose catch block records the error and does not log out
initialize_proxy_catch_keepsSession(r) ==
  Ok([r.w EXCEPT !.store.error = r.msg, !.store.isLoading = FALSE])

initialize_proxy_catch(r) ==
  Ok([logout_default([r.w EXCEPT !.store.error = r.msg])
        EXCEPT !.store.isLoading = FALSE])

initialize_proxy_tail(w) ==
  Ok([setupTokenRefresh(w) EXCEPT !.store.isInitialized = TRUE,
                                  !.store.isLoading = FALSE])

initialize_proxy_afterProfile(r) ==
  IF r.st = "await" THEN r
  ELSE IF r.st = "throw" THEN initialize_proxy_catch(r)
  ELSE initialize_proxy_tail([r.w EXCEPT !.store.isAuthenticated = TRUE])

initialize_proxy_afterRefresh(r) ==
  IF r.st = "await" THEN r
  ELSE IF r.st = "throw" THEN initialize_proxy_catch(r)
  ELSE initialize_proxy_tail(r.w)

initialize_proxy_afterK(k) ==
  IF k.st = "await" THEN k
  ELSE IF k.st = "throw" THEN initialize_proxy_catch(k)
  ELSE IF Truthy(k.w.store.accessToken) /\ ~isTokenExpired(k.w)
       THEN initialize_proxy_afterProfile(refreshUserProfile(k.w))
  ELSE IF Truthy(k.w.store.refreshToken)
       THEN initialize_proxy_afterRefresh(refreshAccessToken(k.w))
  ELSE initialize_proxy_tail(k.w)

initialize_proxy(w) ==
  IF w.store.isInitialized THEN Noop(w)
  ELSE initialize_proxy_afterK(initializeKeycloak(
         loadPersistedState([w EXCEPT !.store.isLoading = TRUE,
                                      !.store.error = NULL])))

\* ---- initialize: src/src/stores/authStore.js
initialize_direct_finally(w) ==
  Ok([w EXCEPT !.store.isInitialized = TRUE, !.store.isInitializing = FALSE])

initialize_direct_catch(r) ==
  initialize_direct_finally(
    [clearAuthState(r.w) EXCEPT !.globalStoreInitialized = FALSE])

initialize_direct_afterProfile(r) ==
  IF r.st = "await" THEN r ELSE initialize_direct_finally(r.w)

initialize_direct_afterK(k) ==
  IF k.st = "await" THEN k
  ELSE IF k.st = "throw" THEN initialize_direct_catch(k)
  ELSE
    LET ks == k.w.svc["store"]
    IN IF TruthyObj(ks.tokens) /\ Truthy(ks.accessToken)
       THEN LET w1 == setTokens(k.w, ks.tokens)
                w2 == IF TruthyObj(ks.userInfo)
                      THEN [w1 EXCEPT !.store.user = UserFromClaims(ks.userInfo)]
                      ELSE w1
            IN initialize_direct_finally(
                 [w2 EXCEPT !.store.isAuthenticated = TRUE,
                            !.store.isInitialized = TRUE])
       ELSE LET w1 == loadPersistedState(k.w)
                hasPersistedTokens == w1.store.isAuthenticated
            IN IF hasPersistedTokens /\ ~isTokenExpired(w1)
               THEN initialize_direct_afterProfile(refreshUserProfile(w1))
               ELSE initialize_direct_finally(clearAuthState(w1))

initialize_direct(w) ==
  IF w.globalStoreInitialized \/ w.store.isInitialized \/ w.store.isInitializing
  THEN Noop(w)
  ELSE initialize_direct_afterK(initializeKeycloak(
         [w EXCEPT !.store.isInitializing = TRUE,
                   !.globalStoreInitialized = TRUE]))

\* ---- handleAuthCallback: src/stores/authStore.js
handleAuthCallback_catch(r) ==
  Throw([logout_default([r.w EXCEPT !.store.error = r.msg])
           EXCEPT !.store.isLoading = FALSE], r.msg)

handleAuthCallback_afterProfile(r) ==
  IF r.st = "await" THEN r
  ELSE Ok([r.w EXCEPT !.store.isAuthenticated = TRUE, !.store.isLoading = FALSE])

\* from the return of keycloakService.handleOAuthCallback() on
handleAuthCallback_afterCallback(r) ==
  IF r.st = "await" THEN Await(r.w, "cb_exchange")
  ELSE IF r.st = "throw" THEN handleAuthCallback_catch(r)
  ELSE IF TruthyObj(r.w.svc["store"].tokens)
       THEN handleAuthCallback_afterProfile(
              refreshUserProfile(setTokens(r.w, r.w.svc["store"].tokens)))
  ELSE Ok([r.w EXCEPT !.store.isLoading = FALSE])

handleAuthCallback_afterK(k) ==
  IF k.st = "await" THEN k
  ELSE IF k.st = "throw" THEN handleAuthCallback_catch(k)
  ELSE handleAuthCallback_afterCallback(handleOAuthCallback_proxy(k.w, "store"))

handleAuthCallback(w) ==
  handleAuthCallback_afterK(initializeKeycloak(
    [w EXCEPT !.store.isLoading = TRUE, !.store.error = NULL]))

\* ---- login and loginWithGoogle of the stores
login_catch(r) ==
  Throw([r.w EXCEPT !.store.error = r.msg, !.store.isLoading = FALSE], r.msg)

\* part_001 has loginWithGoogle and no login; the service runs up to its
\* `await this.generateCodeChallenge(codeVerifier)`
login_afterK(k, google) ==
  IF k.st = "await" THEN k
  ELSE IF k.st = "throw" THEN login_catch(k)
  ELSE IF k.w.variant = "direct" /\ ~google
       THEN login_catch(Throw(k.w, "TypeError: keycloakService.login is not a function"))
  ELSE Await(k.w, "digest")

login_afterDigest(r) ==
  IF r.st = "throw" THEN login_catch(r)
  ELSE Ok([r.w EXCEPT !.store.isLoading = FALSE])

login(w, google) ==
  login_afterK(initializeKeycloak(
    [w EXCEPT !.store.isLoading = TRUE, !.store.error = NULL]), google)

\* a clearError that also drops the user
clearError_dropsUser(w) == [w EXCEPT !.store.error = NULL, !.store.user = NONE]

\* clearError: () => { error.value = null }
clearError(w) == [w EXCEPT !.store.error = NULL]

\* ---- the callers of refreshAccessToken other than initialize
\* the setTimeout callback of setupTokenRefresh
timerCallback_after(r) ==
  IF r.st = "await" THEN r
  ELSE IF r.st = "throw" THEN Ok(r.w)
  ELSE Ok(setupTokenRefresh(r.w))

\* watch(isTokenExpired): refreshAccessToken().catch(() => logout(false))
watchExpired_after(r) ==
  IF r.st = "await" THEN r
  ELSE IF r.st = "throw" THEN Ok(logout(r.w, FALSE))
  ELSE Ok(r.w)

\* ------------------------------------------------------------ the event loop

\* ended: op and st name the call that ended in the last step ("none" when the
\* step parked its call on a fetch or was a tick); kind and ok are the response
\* the step handled ("call" for the start of a call); arg is the argument of
\* logout; stale is the mark of the frame that was resumed; wasAuthenticated is
\* isAuthenticated as the step found it.
NoneEnded == [op |-> "none", st |-> "", kind |-> "none", ok |-> TRUE,
              arg |-> FALSE, stale |-> FALSE, wasAuthenticated |-> FALSE]
StepRecord(kind, ok, arg, stale) ==
  [NoneEnded EXCEPT !.kind = kind, !.ok = ok, !.arg = arg, !.stale = stale,
                    !.wasAuthenticated = store.isAuthenticated]
KindOf(pc) == IF pc = "cb_exchange" THEN "exchange" ELSE pc
IdleSlots(w) == {c \in CallIds : w.frames[c].op = "idle"}
FirstIdle(w) == CHOOSE c \in IdleSlots(w) : \A d \in IdleSlots(w) : c <= d

\* The call `op` has run up to r: it is parked on the fetch it awaits (the
\* request is counted; part_001's loadConfig is no request) or it has ended.
Place(op, inst, r) ==
  IF r.st = "await"
  THEN LET pc == r.msg
           exch == KindOf(pc) = "exchange"
           fr == [op |-> op, pc |-> pc, inst |-> inst,
                  code |-> IF exch THEN r.w.url.code ELSE NULL,
                  verifier |-> IF exch
                               THEN r.w.sessionStorage.keycloak_code_verifier
                               ELSE NULL,
                  stale |-> FALSE, login |-> r.w.call.login,
                  options |-> r.w.call.options]
           sent == ~(pc = "config" /\ r.w.variant = "direct") /\ pc # "digest"
       IN [r.w EXCEPT !.frames[FirstIdle(r.w)] = fr,
                      !.requests[op][KindOf(pc)] = IF sent THEN @ + 1 ELSE @]
  ELSE [r.w EXCEPT !.ended.op = op, !.ended.st = r.st]

\* The watchers of src/stores/authStore.js (the other store has none).  Vue runs
\* them after the block that changed the watched value, when the value differs
\* from the one they saw last: watch(isTokenExpired) first, then
\* watch(isAuthenticated).
watchExpired(w0, w) ==
  IF w.store.isTokenExpired # w0.store.isTokenExpired
     /\ w.store.isTokenExpired /\ w.store.isAuthenticated
  THEN [Place("watch", "store", watchExpired_after(refreshAccessToken(w)))
          EXCEPT !.ended = w.ended, !.started["watch"] = @ + 1]
  ELSE w

watchAuthenticated(w0, w) ==
  IF w.store.isAuthenticated = w0.store.isAuthenticated THEN w
  ELSE IF w.store.isAuthenticated THEN setupTokenRefresh(w)
  ELSE IF TruthyNum(w.store.sessionTimeout)
       THEN [clearTimeout(w, w.store.sessionTimeout)
               EXCEPT !.store.sessionTimeout = 0]
  ELSE w

flushWatchers(w0, w) ==
  IF w.variant = "proxy" THEN watchAuthenticated(w0, watchExpired(w0, w)) ELSE w

Finish(w0, op, inst, r) == flushWatchers(w0, Place(op, inst, r))

\* the world a new call of `op` starts in
Starting(op, arg) ==
  [World EXCEPT !.ended = StepRecord("call", TRUE, arg, FALSE),
                !.started[op] = @ + 1,
                !.concurrent = IF \E c \in CallIds : frames[c].op = op
                               THEN @ \cup {op} ELSE @]

\* the calls the application has made (timer and watcher callbacks aside)
CallsMade ==
  started["initialize"] + started["handleAuthCallback"] + started["logout"]
    + started["forceRefresh"] + started["refreshUserProfile"] + started["init"]
    + started["login"] + started["loginWithGoogle"] + started["clearError"]

CanStart(op) ==
  /\ page = "loaded"
  /\ variant \in {"standalone", "library"} => op = "init"
  /\ CallsMade < MaxStarts
  /\ IdleSlots(World) # {}

\* The code that continues call f when the fetch it awaits has answered.
\* k is the result of initializeKeycloak, in whichever function awaited it.
Continue_afterK(w, f, k) ==
  CASE f.op = "initialize" ->
         IF w.variant = "proxy" THEN initialize_proxy_afterK(k)
         ELSE initialize_direct_afterK(k)
    [] f.op = "handleAuthCallback" -> handleAuthCallback_afterK(k)
    [] f.op = "forceRefresh" -> refreshAccessToken_afterK(k)
    [] f.op = "timer" -> timerCallback_after(refreshAccessToken_afterK(k))
    [] f.op = "watch" -> watchExpired_after(refreshAccessToken_afterK(k))
    [] f.op = "refreshUserProfile" -> refreshUserProfile_afterK(k)
    [] f.op = "login" -> login_afterK(k, FALSE)
    [] f.op = "loginWithGoogle" -> login_afterK(k, TRUE)
    [] OTHER -> k

\* r is the result of refreshAccessToken
Continue_afterRefresh(f, r) ==
  CASE f.op = "initialize" -> initialize_proxy_afterRefresh(r)
    [] f.op = "timer" -> timerCallback_after(r)
    [] f.op = "watch" -> watchExpired_after(r)
    [] OTHER -> r

\* r is the result of refreshUserProfile
Continue_afterProfile(w, f, r) ==
  CASE f.op = "initialize" ->
         IF w.variant = "proxy" THEN initialize_proxy_afterProfile(r)
         ELSE initialize_direct_afterProfile(r)
    [] f.op = "handleAuthCallback" -> handleAuthCallback_afterProfile(r)
    [] OTHER -> r

Continue_config(w, f, resp) ==
  IF w.variant = "standalone" THEN init_standalone_config(w, f.inst, resp)
  ELSE IF w.variant = "library" THEN init_library_config(w, f.inst, resp)
  ELSE Continue_afterK(w, f, init_config(w, f.inst, resp))

Continue_exchange(w, f, resp) ==
  IF w.variant = "standalone" THEN init_standalone_exchange(w, f.inst, resp)
  ELSE IF f.pc = "cb_exchange"
  THEN handleAuthCallback_afterCallback(
         handleOAuthCallback_proxy_response(w, "store", resp))
  ELSE Continue_afterK(w, f, init_exchange(w, f.inst, resp))

Continue_refresh(w, f, resp) ==
  IF w.variant = "standalone"
  THEN intervalCallback_after(updateToken_response(w, f.inst, resp), f.inst)
  ELSE Continue_afterRefresh(f, refreshAccessToken_response(w, resp))

Continue_userinfo(w, f, resp) ==
  IF w.variant = "standalone" THEN init_standalone_validated(w, f.inst, resp)
  ELSE Continue_afterProfile(w, f, refreshUserProfile_response(w, resp))

Continue_digest(w, f) ==
  login_afterDigest(login_service_digest(w, f.inst, f.op = "loginWithGoogle"))

\* the world the continuation of call c finds when the response resp arrives
Resumed(c, w0, resp) ==
  [w0 EXCEPT !.frames[c] = IdleFrame,
             !.call = [login |-> frames[c].login, options |-> frames[c].options],
             !.ended = StepRecord(KindOf(frames[c].pc), resp.ok, FALSE,
                                  frames[c].stale)]

\* the block of call f has run from world w0 up to r
Run(w0, f, r) == Commit(Finish(w0, f.op, f.inst, r))

\* ------------------------------------------------------------------ actions

\* part_001's loadConfig awaits no fetch: the call waiting on it continues in
\* the same turn of the event loop, before any timer, response or clock tick.
Settled == ~(variant = "direct" /\ \E c \in CallIds : frames[c].pc = "config")

Initialize ==
  /\ CanStart("initialize")
  /\ LET w0 == Starting("initialize", FALSE)
         r == IF variant = "proxy" THEN initialize_proxy(w0)
              ELSE initialize_direct(w0)
     IN Commit(Finish(w0, "initialize", "store", r))

HandleAuthCallback ==
  /\ variant = "proxy"
  /\ CanStart("handleAuthCallback")
  /\ LET w0 == Starting("handleAuthCallback", FALSE)
     IN Commit(Finish(w0, "handleAuthCallback", "store", handleAuthCallback(w0)))

Logout ==
  /\ CanStart("logout")
  /\ \E redirectToKeycloak \in BOOLEAN :
       LET w0 == Starting("logout", redirectToKeycloak)
       IN Commit(Finish(w0, "logout", "store", Ok(logout(w0, redirectToKeycloak))))

ForceRefresh ==
  /\ CanStart("forceRefresh")
  /\ LET w0 == Starting("forceRefresh", FALSE)
     IN Commit(Finish(w0, "forceRefresh", "store", refreshAccessToken(w0)))

RefreshUserProfile ==
  /\ CanStart("refreshUserProfile")
  /\ LET w0 == Starting("refreshUserProfile", FALSE)
     IN Commit(Finish(w0, "refreshUserProfile", "store", refreshUserProfile(w0)))

Login ==
  /\ logins < MaxLogins
  /\ \E google \in BOOLEAN, options \in LoginOptions :
       \E op \in {IF google THEN "loginWithGoogle" ELSE "login"} :
         /\ CanStart(op)
         /\ LET w0 == [Starting(op, FALSE)
                        EXCEPT !.logins = @ + 1,
                               !.call = [login |-> logins + 1, options |-> options]]
            IN Commit(Finish(w0, op, "store", login(w0, google)))

ClearError ==
  /\ CanStart("clearError")
  /\ LET w0 == Starting("clearError", FALSE)
     IN Commit(Finish(w0, "clearError", "store", Ok(clearError(w0))))

\* init() of the service instance the module exports beside the class
ServiceInit ==
  /\ CanStart("init")
  /\ LET w0 == Starting("init", FALSE)
     IN Commit(Finish(w0, "init", "singleton", init(w0, "singleton")))

\* A timer that is due fires: the setTimeout callback of setupTokenRefresh in
\* the stores, the setInterval callback of the standalone service (which stays
\* armed for its next period).
TimerFire ==
  /\ page = "loaded"
  /\ Settled
  /\ IdleSlots(World) # {}
  /\ \E t \in timers :
       /\ now >= t.at
       /\ \E w0 \in {[World EXCEPT
                         !.ended = StepRecord("call", TRUE, FALSE, FALSE),
                         !.timers = (@ \ {t}) \cup
                                    (IF t.every > 0
                                     THEN {[t EXCEPT !.at = now + t.every]}
                                     ELSE {}),
                         !.started["timer"] = @ + 1]} :
            IF variant = "standalone"
            THEN Commit(Finish(w0, "timer", "singleton",
                               intervalCallback(w0, "singleton")))
            ELSE IF variant = "library"
            THEN Commit(Finish(w0, "timer", "singleton",
                               intervalCallback_library(w0, "singleton")))
            ELSE Commit(Finish(w0, "timer", "store",
                               timerCallback_after(refreshAccessToken(w0))))

Config == [url |-> "https://auth.utribe.app", realm |-> "utribe",
           clientId |-> "giftportal"]

ConfigResponse ==
  /\ page = "loaded"
  /\ \E c \in CallIds :
       /\ frames[c].pc = "config"
       /\ \E ok \in IF variant = "direct" THEN {TRUE} ELSE BOOLEAN :
            \E resp \in {[ok |-> ok, config |-> Config]} :
              \E w0 \in {Resumed(c, World, resp)} :
                Run(w0, frames[c], Continue_config(w0, frames[c], resp))


\* the token responses the identity provider may give next
TokenResponses ==
  IF idp.issued < MaxTokens
  THEN {[ok |-> TRUE, tokens |-> TokenSet(idp.issued + 1, e, shape),
          lifetime |-> e] :
          e \in ExpiresInValues, shape \in ResponseShapes}
  ELSE {}

\* The identity provider issues the next generation of tokens; the exp claim of
\* its access token is recorded where a service decodes it (the standalone one).
Issue(w, resp) ==
  IF resp.ok
  THEN [w EXCEPT !.idp.issued = @ + 1,
                 !.idp.exp[w.idp.issued + 2] =
                    IF w.variant = "standalone"
                    THEN (w.now + resp.lifetime * 1000) \div 1000 ELSE 0]
  ELSE w

\* The identity provider redeems a code once, for the verifier of its challenge.
ExchangeResponse ==
  /\ page = "loaded"
  /\ Settled
  /\ \E c \in CallIds :
       /\ KindOf(frames[c].pc) = "exchange"
       /\ \E resp \in {[ok |-> FALSE]} \cup
                      (IF /\ \E n \in 1..Len(CodeNames) :
                               /\ frames[c].code = CodeNames[n]
                               /\ frames[c].verifier = VerifierNames[n]
                          /\ ~idp.redeemed
                       THEN TokenResponses ELSE {}) :
            \E w0 \in {[Resumed(c, Issue(World, resp), resp)
                          EXCEPT !.idp.redeemed = @ \/ resp.ok]} :
              Run(w0, frames[c], Continue_exchange(w0, frames[c], resp))

RefreshResponse ==
  /\ page = "loaded"
  /\ Settled
  /\ \E c \in CallIds :
       /\ frames[c].pc = "refresh"
       /\ \E resp \in {[ok |-> FALSE]} \cup TokenResponses :
            \E w0 \in {Resumed(c, Issue(World, resp), resp)} :
              Run(w0, frames[c], Continue_refresh(w0, frames[c], resp))

UserInfoResponse ==
  /\ page = "loaded"
  /\ Settled
  /\ \E c \in CallIds :
       /\ frames[c].pc = "userinfo"
       /\ \E ok \in BOOLEAN :
            \E resp \in {[ok |-> ok,
                          userInfo |-> [sub |-> UserSub, email |-> "profile"]]} :
              \E w0 \in {Resumed(c, World, resp)} :
                Run(w0, frames[c], Continue_userinfo(w0, frames[c], resp))

\* crypto.subtle.digest of a login settles; the script of a page that has been
\* sent elsewhere still runs until the new document replaces it
DigestResolved ==
  /\ page \in {"loaded", "login"}
  /\ Settled
  /\ \E c \in CallIds :
       /\ frames[c].pc = "digest"
       /\ \E resp \in {[ok |-> TRUE]} :
            \E w0 \in {Resumed(c, World, resp)} :
              Run(w0, frames[c], Continue_digest(w0, frames[c]))

\* keycloak.init of the keycloak-js adapter settles
KeycloakInitSettled ==
  /\ page = "loaded"
  /\ \E c \in CallIds :
       /\ frames[c].pc = "sso"
       /\ \E ok \in BOOLEAN :
            \E resp \in {[ok |-> ok]} :
              \E w0 \in {Resumed(c, World, resp)} :
                Run(w0, frames[c], init_library_sso(w0, frames[c].inst, resp))

\* what a page that is loaded finds: no session stored ("none"), or something
\* left by the page before ("other"); a callback whose state is the stored one
\* or is not
ScenarioFound(w, state) ==
  [stored |-> IF /\ w.localStorage.auth_tokens = NONE
                 /\ w.localStorage.auth_expires_at = NONE
                 /\ w.localStorage.auth_user = NONE
              THEN "none" ELSE "other",
   kc |-> IF /\ w.localStorage.keycloak_tokens = NONE
             /\ w.localStorage.keycloak_token_expiry = NONE
          THEN "none" ELSE "other",
   cb |-> IF w.sessionStorage.keycloak_state = NULL THEN "nopending"
          ELSE IF w.sessionStorage.keycloak_state = state THEN "match"
          ELSE "mismatch"]

\* A new document of the tab: the application is loaded again with fresh
\* modules, stores and timers; localStorage and sessionStorage are those of
\* the tab; the calls of the document before are gone with it.
NewDocument(w, location, found) ==
  [w EXCEPT !.page = "loaded",
            !.href = NONE,
            !.url = location,
            !.store = FreshStore,
            !.keycloakService = NULL,
            !.svc = [i \in Instances |-> FreshService],
            !.globalCallbackProcessing = FALSE,
            !.globalStoreInitialized = FALSE,
            !.frames = [c \in CallIds |-> IdleFrame],
            !.timers = {},
            !.idp.redeemed = FALSE,
            !.scenario = found,
            !.requests = [o \in Ops |-> [k \in Kinds |-> 0]],
            !.started = [o \in Ops |-> 0],
            !.thrown = {},
            !.concurrent = {},
            !.ended = NoneEnded]

\* The identity provider answers a login of this tab: the browser loads the
\* application again at the redirect URI with the code and the state of that
\* login.  The pages followed through a login are those that were loaded with
\* no session and no callback and made no other call before it.
CallbackPageLoad ==
  /\ page = "login"
  /\ CallsMade = started["login"] + started["loginWithGoogle"]
  /\ scenario = [stored |-> "none", kc |-> "none", cb |-> "none"]
  /\ \E n \in idp.requested :
       Commit(NewDocument(
         [World EXCEPT !.idp.requested = @ \ {n}],
         [code |-> CodeNames[n + 1], state |-> StateNames[n + 1]],
         ScenarioFound(World, StateNames[n + 1])))

\* The application is loaded again after a logout() of the stores has
\* completed, at a URL without callback: at once, or when Keycloak has sent
\* the browser back from its logout endpoint.  One such load is followed.
PageLoadAfterLogout ==
  /\ variant \in {"proxy", "direct"}
  /\ page \in {"loaded", "logout"}
  /\ ended.op = "logout"
  /\ scenario.stored # "loggedOut"
  /\ Commit(NewDocument(
       World, [code |-> NULL, state |-> NULL],
       [ScenarioFound(World, NULL) EXCEPT !.stored = "loggedOut",
                                          !.cb = "none"]))

Tick ==
  /\ Settled
  /\ now < StartMs + MaxTicks * TickMs
  /\ now' = now + TickMs
  /\ ended' = NoneEnded
  /\ UNCHANGED <<variant, page, href, logins, url, sessionStorage, localStorage, store,
                 keycloakService, svc, globalCallbackProcessing,
                 globalStoreInitialized, frames, timers, idp, scenario,
                 requests, started, thrown, concurrent>>

\* ------------------------------------------------------------ initial state

StoredExpiry(kind) == IF kind = "valid" THEN StartMs + 3 * TickMs ELSE StartMs - TickMs

StoredSessions == {"none", "valid", "expired", "expired_norefresh"}
ServiceSessions == {"none", "valid", "expired"}
Callbacks == {"none", "match", "mismatch", "nopending"}

InitLocalStorage(stored, kc) ==
  LET t0 == TokenSet(0, 300, IF stored = "expired_norefresh" THEN "norefresh" ELSE "full")
  IN [auth_tokens |-> IF stored = "none" THEN NONE
                      ELSE [access_token |-> t0.access_token,
                            refresh_token |-> t0.refresh_token,
                            id_token |-> t0.id_token],
      auth_expires_at |-> IF stored = "none" THEN NONE
                          ELSE toString(StoredExpiry(stored)),
      auth_user |-> IF stored = "none" THEN NONE
                    ELSE UserFromPayload(DecodeIdToken(t0.id_token)),
      keycloak_tokens |-> IF kc = "none" THEN NONE ELSE TokenSet(0, 300, "full"),
      keycloak_token_expiry |-> IF kc = "none" THEN NONE
                                ELSE toString(StoredExpiry(kc))]

InitUrl(cb) ==
  CASE cb = "none" -> [code |-> NULL, state |-> NULL]
    [] cb = "mismatch" -> [code |-> "cX", state |-> "sX"]
    [] OTHER -> [code |-> CodeNames[1], state |-> "s1"]

InitSessionStorage(cb) ==
  IF cb \in {"match", "mismatch"}
  THEN [keycloak_state |-> "s1", keycloak_code_verifier |-> VerifierNames[1],
        keycloak_redirect_uri |-> "origin/"]
  ELSE [keycloak_state |-> NULL, keycloak_code_verifier |-> NULL,
        keycloak_redirect_uri |-> NULL]

Init ==
  /\ variant \in Variants
  /\ scenario \in [stored : StoredSessions, kc : ServiceSessions, cb : Callbacks]
  /\ variant = "proxy" => scenario.kc = "none"
  /\ variant = "standalone" => scenario.stored = "none"
  /\ variant = "library" =>
       scenario = [stored |-> "none", kc |-> "none", cb |-> "none"]
  /\ now = StartMs
  /\ page = "loaded"
  /\ href = NONE
  /\ logins = 0
  /\ url = InitUrl(scenario.cb)
  /\ sessionStorage = InitSessionStorage(scenario.cb)
  /\ localStorage =
       IF variant = "standalone" /\ scenario.kc # "none"
       THEN storeTokens([now |-> StartMs - TickMs,
                         localStorage |-> InitLocalStorage("none", "none")],
                        TokenSet(0, 300, "full")).localStorage
       ELSE InitLocalStorage(scenario.stored, scenario.kc)
  /\ store = FreshStore
  /\ keycloakService = NULL
  /\ svc = [i \in Instances |->
              IF variant \in {"standalone", "library"}
              THEN [FreshService EXCEPT !.config = Config]
              ELSE FreshService]
  /\ globalCallbackProcessing = FALSE
  /\ globalStoreInitialized = FALSE
  /\ frames = [c \in CallIds |-> IdleFrame]
  /\ timers = {}
  /\ idp = [issued |-> 0, redeemed |-> FALSE, requested |-> {},
            exp |-> [g \in 1..(MaxTokens + 1) |->
                       IF g = 1 /\ variant = "standalone" /\ scenario.kc # "none"
                       THEN StoredExpiry(scenario.kc) \div 1000 ELSE 0]]
  /\ requests = [o \in Ops |-> [k \in Kinds |-> 0]]
  /\ started = [o \in Ops |-> 0]
  /\ thrown = {}
  /\ concurrent = {}
  /\ ended = NoneEnded

Next ==
  \/ Initialize
  \/ HandleAuthCallback
  \/ Logout
  \/ ForceRefresh
  \/ RefreshUserProfile
  \/ ServiceInit
  \/ TimerFire
  \/ ConfigResponse
  \/ ExchangeResponse
  \/ RefreshResponse
  \/ UserInfoResponse
  \/ KeycloakInitSettled
  \/ Login
  \/ ClearError
  \/ DigestResolved
  \/ CallbackPageLoad
  \/ PageLoadAfterLogout
  \/ Tick

Spec == Init /\ [][Next]_vars

\* ------------------------------------------------------------------ claims

\* the requests of one kind sent so far, by every entry point
Sent(kind) ==
  requests["initialize"][kind] + requests["handleAuthCallback"][kind]
    + requests["logout"][kind] + requests["forceRefresh"][kind]
    + requests["refreshUserProfile"][kind] + requests["timer"][kind]
    + requests["watch"][kind] + requests["init"][kind]
    + requests["login"][kind] + requests["loginWithGoogle"][kind]

\* C1: when initialize() has been called a second time while the first call was
\* still pending, the calls of initialize() together have sent at most one
\* token-exchange request and at most one token-refresh request.
C1_ConcurrentInitializeSendsOnce ==
  "initialize" \in concurrent =>
    /\ requests["initialize"]["exchange"] <= 1
    /\ requests["initialize"]["refresh"] <= 1

\* no call is pending
Quiet == \A c \in CallIds : frames[c].op = "idle"

\* C2: with part_001, whatever calls the store's service instance and the
\* exported instance get, and whether an exchange succeeds or fails, at most one
\* token-exchange request is ever sent (the page holds one authorization code).
C2_CodeSentAtMostOnce ==
  variant = "direct" => Sent("exchange") <= 1

\* both instances have run init() on the callback URL, the exchange of the first
\* has failed, the code is still in the URL, and one request was sent
C2_Witness ==
  /\ variant = "direct"
  /\ started["initialize"] = 1 /\ started["init"] = 1
  /\ Quiet
  /\ "Token exchange failed" \in thrown
  /\ url.code = CodeNames[1]
  /\ Sent("exchange") = 1

\* the messages of the errors the three services throw on a state mismatch
StateMismatchErrors ==
  {"State mismatch - possible CSRF attack", "Invalid state parameter",
   "Invalid state parameter - possible CSRF attack"}

\* the store holds no session: it is not authenticated and has no access token
Unauthenticated ==
  /\ ~store.isAuthenticated
  /\ store.accessToken = NULL

\* the same of the call that ended in the step: a call of init() on the exported
\* service instance has no store, the session is the tokens of the instance
EndedUnauthenticated ==
  IF ended.op = "init" THEN svc["singleton"].tokens = NONE ELSE Unauthenticated

\* the state in the URL differs from the state in sessionStorage (or none is there)
StateMismatch == scenario.cb \in {"mismatch", "nopending"}

\* the step ran the code that follows loadConfig(), which processes a callback
\* (the standalone service goes on when the fetch of its configuration failed)
ConfigLoadedInStep ==
  ended.kind = "config" /\ (ended.ok \/ variant = "standalone")

\* C3: on a page whose callback URL carries a state that differs from the stored
\* one, no token-exchange request is ever sent, and the step that processes the
\* callback ends with a state-mismatch error thrown by handleOAuthCallback and
\* with no session in the memory of the store or service that processed it.
C3_StateMismatchRejected ==
  StateMismatch =>
    /\ Sent("exchange") = 0
    /\ ConfigLoadedInStep =>
         /\ thrown \cap StateMismatchErrors # {}
         /\ EndedUnauthenticated

\* The one call the application has made is a call of `op`, and no timer or
\* watcher callback has run: the call is looked at on its own.
Isolated(op) ==
  /\ started[op] = 1
  /\ CallsMade = 1
  /\ started["timer"] = 0
  /\ started["watch"] = 0

\* the call of initialize() ended in the step (and was no early return)
InitializeEnded == ended.op = "initialize" /\ ended.st # "noop"

\* the token exchange has succeeded and its response carried an ID token
ExchangedWithIdToken ==
  /\ idp.redeemed
  /\ svc["store"].tokens # NONE
  /\ Truthy(svc["store"].tokens.id_token)

\* the store's user carries the claims of ID token t
UserDecodedFrom(t) ==
  /\ store.user # NONE
  /\ UserSub \in {store.user.sub, store.user.id}
  /\ store.user.email = DecodeIdToken(t).email

\* C4: fresh login end to end.  With no stored session, a callback URL with the
\* code and the matching state, and a successful exchange, a call of
\* initialize() on its own ends Authenticated, with the user decoded from the
\* ID token, the tokens in the durable store and the URL without code and state.
C4_FreshLoginEndsAuthenticated ==
  ( /\ scenario = [stored |-> "none", kc |-> "none", cb |-> "match"]
    /\ Isolated("initialize")
    /\ InitializeEnded
    /\ ExchangedWithIdToken )
  => /\ store.isAuthenticated
     /\ store.accessToken = svc["store"].tokens.access_token
     /\ UserDecodedFrom(svc["store"].tokens.id_token)
     /\ localStorage.auth_tokens # NONE
     /\ localStorage.auth_tokens.access_token = svc["store"].tokens.access_token
     /\ url = [code |-> NULL, state |-> NULL]

\* the store's durable entries are absent
DurableStoreEmpty ==
  /\ localStorage.auth_tokens = NONE
  /\ localStorage.auth_expires_at = NONE
  /\ localStorage.auth_user = NONE

\* the store's tokens, expiry and user are null
SessionStateNull ==
  /\ store.accessToken = NULL
  /\ store.refreshToken = NULL
  /\ store.idToken = NULL
  /\ store.tokenExpiresAt = 0
  /\ store.user = NONE

\* the entries part_001 keeps the token response and its expiry in are absent
ServiceStoreEmpty ==
  /\ localStorage.keycloak_tokens = NONE
  /\ localStorage.keycloak_token_expiry = NONE

\* C5: when logout(false) has run on an authenticated store, the durable token,
\* expiry and user entries are absent, the tokens, expiry and user in memory are
\* null, isAuthenticated is false and no refresh timer is pending.
C5_LogoutClearsSession ==
  (ended.op = "logout" /\ ~ended.arg /\ ended.wasAuthenticated) =>
    /\ DurableStoreEmpty
    /\ ServiceStoreEmpty
    /\ SessionStateNull
    /\ ~store.isAuthenticated
    /\ store.sessionTimeout = 0
    /\ timers = {}

\* C6: when the response of a token refresh arrives after a logout() that ran
\* while the request was in flight, and the tokens, expiry and user were null,
\* the durable store empty and no timer pending when it arrived, they still are
\* after the step that handles the response.
C6_StaleRefreshDiscarded ==
  [][(ended'.kind = "refresh" /\ ended'.stale
        /\ SessionStateNull /\ DurableStoreEmpty /\ timers = {})
      => (SessionStateNull' /\ DurableStoreEmpty' /\ timers' = {})]_vars

\* the durable store holds an expired access token with a refresh token, and
\* the URL is no callback URL
ExpiredSessionStored ==
  /\ scenario.stored = "expired"
  /\ scenario.kc # "valid"
  /\ scenario.cb = "none"

\* C7: with an expired access token and a refresh token in the durable store
\* and no callback URL, a call of initialize() on its own, in which no request
\* failed, has sent exactly one refresh request and ends Authenticated, with the
\* tokens of the refresh response in the store and in the durable store.
C7_ExpiredSessionRefreshed ==
  ( /\ ExpiredSessionStored
    /\ Isolated("initialize")
    /\ InitializeEnded
    /\ thrown = {} )
  => /\ requests["initialize"]["refresh"] = 1
     /\ store.isAuthenticated
     /\ store.accessToken = TokenSet(1, 300, "full").access_token
     /\ localStorage.auth_tokens # NONE
     /\ localStorage.auth_tokens.access_token = store.accessToken

\* the one refresh request initialize() sent was answered with an error
InitializeRefreshFailed ==
  /\ requests["initialize"]["refresh"] = 1
  /\ idp.issued = 0
  /\ "Token refresh failed" \in thrown

\* C8: with an expired access token and a refresh token in the durable store
\* and no callback URL, a call of initialize() on its own whose refresh request
\* failed ends Unauthenticated, with the tokens, expiry and user null and the
\* durable store empty; and when the refresh request of the standalone
\* service's updateToken() fails, that service holds no tokens and its
\* durable entry is removed.
C8_FailedRefreshEndsUnauthenticated ==
  /\ ( /\ ExpiredSessionStored
       /\ Isolated("initialize")
       /\ InitializeEnded
       /\ InitializeRefreshFailed )
     => /\ Unauthenticated
        /\ SessionStateNull
        /\ DurableStoreEmpty
        /\ timers = {}
  /\ (variant = "standalone" /\ ended.kind = "refresh" /\ ~ended.ok)
     => /\ svc["singleton"].tokens = NONE
        /\ localStorage.keycloak_tokens = NONE

\* initialize() has ended after its refresh request failed
C8_Witness ==
  /\ ExpiredSessionStored
  /\ Isolated("initialize")
  /\ InitializeEnded
  /\ InitializeRefreshFailed

\* the durable store holds a token set that has not expired (and still has not
\* when the step is taken), and the URL is no callback URL
ValidSessionStored ==
  /\ scenario.stored = "valid"
  /\ scenario.cb = "none"
  /\ now < StoredExpiry("valid")

\* the store resumed the stored session and initialize() sent no token request
ResumedSilently ==
  /\ store.isAuthenticated
  /\ store.accessToken = TokenSet(0, 300, "full").access_token
  /\ requests["initialize"]["exchange"] = 0
  /\ requests["initialize"]["refresh"] = 0

\* the service of the store has its configuration
ConfigResolved == svc["store"].config # NONE

SessionValid == store.isAuthenticated /\ Truthy(store.accessToken)

\* C10: a step that handles the failure of a user-info request of the store,
\* taken while the store is authenticated with an access token, changes neither
\* isAuthenticated, nor the tokens, nor the expiry, nor the durable token and
\* expiry entries.
C10_ProfileFailureKeepsSession ==
  [][(ended'.kind = "userinfo" /\ ~ended'.ok /\ SessionValid)
      => /\ store'.isAuthenticated = store.isAuthenticated
         /\ store'.accessToken = store.accessToken
         /\ store'.refreshToken = store.refreshToken
         /\ store'.idToken = store.idToken
         /\ store'.tokenExpiresAt = store.tokenExpiresAt
         /\ localStorage'.auth_tokens = localStorage.auth_tokens
         /\ localStorage'.auth_expires_at = localStorage.auth_expires_at]_vars

\* a user-info request of refreshUserProfile(), called by the application or
\* inside initialize(), has failed while the store was authenticated
C10_Witness ==
  /\ ended.kind = "userinfo"
  /\ ~ended.ok
  /\ ended.wasAuthenticated
  /\ ended.op \in {"refreshUserProfile", "initialize"}
  /\ SessionValid

\* the messages of the errors callback processing ends with
CallbackErrors ==
  StateMismatchErrors \cup
    {"No code verifier found in session", "Missing code verifier",
     "Token exchange failed"}

\* the step ended the processing of the callback the page was loaded with: the
\* answer to the token exchange was handled, or the callback was rejected
\* before any request
CallbackFinished ==
  /\ scenario.cb # "none"
  /\ \/ ended.kind = "exchange"
     \/ ConfigLoadedInStep /\ thrown \cap CallbackErrors # {}

\* C11: when the processing of a callback has finished, with the exchange
\* accepted, with the state rejected or with the exchange rejected, the visible
\* URL carries neither code nor state.
C11_CallbackUrlStripped ==
  CallbackFinished => url = [code |-> NULL, state |-> NULL]

\* sessionStorage holds no state, code verifier or redirect URI
PendingAuthorizationGone ==
  /\ sessionStorage.keycloak_state = NULL
  /\ sessionStorage.keycloak_code_verifier = NULL
  /\ sessionStorage.keycloak_redirect_uri = NULL

\* C12: when the processing of a callback has finished, with the exchange
\* accepted, with the state rejected or with the exchange rejected,
\* sessionStorage holds neither the state, nor the code verifier, nor the
\* redirect URI of the pending authorization.
C12_PendingAuthorizationDeleted ==
  CallbackFinished => PendingAuthorizationGone

\* the step ended a call of the store in which the processing of the callback
\* failed: the exchange was rejected, or the state was (in initialize() when the
\* configuration had loaded, in handleAuthCallback() also at once, on a service
\* that exists already)
StoreCallbackFailed ==
  /\ scenario.cb # "none"
  /\ \/ /\ ended.op \in {"initialize", "handleAuthCallback"}
        /\ ended.kind = "exchange"
        /\ ~ended.ok
     \/ /\ ended.op \in {"initialize", "handleAuthCallback"}
        /\ ConfigLoadedInStep
        /\ StateMismatch
     \/ /\ ended.op = "handleAuthCallback"
        /\ ended.kind = "call"
        /\ StateMismatch

InitializeCompleted ==
  /\ started["initialize"] >= 1
  /\ \A c \in CallIds : frames[c].op # "initialize"

\* C14: a call of initialize() made after a call of initialize() has completed
\* returns at once: it sends no request, leaves no call pending and changes
\* neither the store, nor the service, nor the storages, nor the timers.
C14_LaterInitializeIsNoop ==
  [][(InitializeCompleted /\ started'["initialize"] = started["initialize"] + 1)
      => /\ ended'.st = "noop"
         /\ UNCHANGED <<store, svc, keycloakService, localStorage,
                        sessionStorage, url, page, timers, frames, requests>>]_vars

\* the store is authenticated and knows when its access token expires
AuthenticatedWithExpiry ==
  store.isAuthenticated /\ TruthyNum(store.tokenExpiresAt)

\* the timer the store holds is pending and due at `at`
RefreshTimerDueAt(at) ==
  \E t \in timers : t.id = store.sessionTimeout /\ t.at = at

\* C15: whenever the store is authenticated and knows the expiry of its access
\* token, the refresh timer it holds is pending and due 120,000 ms before that
\* expiry.
C15_TimerArmedWhileAuthenticated ==
  AuthenticatedWithExpiry =>
    RefreshTimerDueAt(store.tokenExpiresAt - RefreshLeadMs)

\* C16: in every reachable state at most one refresh timer is pending, whatever
\* calls of initialize, handleAuthCallback, forceRefresh, logout and init were
\* made and whatever the timers and responses did.
C16_AtMostOneTimer ==
  Cardinality(timers) <= 1

\* the refresh request the refresh timer's callback sent has failed, and the
\* callback has run to its end in the step
TimerRefreshFailed ==
  /\ ended.op = "timer"
  /\ ended.kind = "refresh"
  /\ ~ended.ok

\* no session is held: by the store, or by the service that runs without one
NoSessionHeld ==
  IF variant = "standalone" THEN svc["singleton"].tokens = NONE
  ELSE Unauthenticated /\ store.refreshToken = NULL

\* C17: when the refresh timer has fired and the refresh request it sent has
\* failed, no session is held any more (the store is unauthenticated, no refresh
\* token is left to send) and no refresh timer is pending, so that no refresh
\* request follows for that session.
C17_FailedAutoRefreshEndsSession ==
  TimerRefreshFailed => NoSessionHeld /\ timers = {}

\* the refresh request the store's refresh timer sent has succeeded, and the
\* timer's callback has run to its end in the step (src/stores/authStore.js is
\* the store that arms the timer)
StoreAutoRefreshSucceeded ==
  /\ variant = "proxy"
  /\ ended.op = "timer"
  /\ ended.kind = "refresh"
  /\ ended.ok

\* C18: when the refresh timer has fired and the refresh request it sent has
\* succeeded, exactly one refresh timer is pending, the one the store holds the
\* handle of, and it is due 120000 ms before the expiry the store has taken
\* from the new tokens.
C18_SuccessfulAutoRefreshRearms ==
  StoreAutoRefreshSucceeded =>
    timers = {[id |-> store.sessionTimeout,
               at |-> store.tokenExpiresAt - RefreshLeadMs, every |-> 0]}

\* the step handled a successful token response: of the exchange or of a refresh
TokenResponseAccepted ==
  /\ ended.kind \in {"exchange", "refresh"}
  /\ ended.ok

\* the access token of the response the step handled: the newest one issued
NewestToken == TokenNames[idp.issued + 1]

\* setTokens has taken the tokens of that response, which carries expires_in,
\* from the store's service into the store
StoreTookTokens ==
  /\ TokenResponseAccepted
  /\ store.accessToken = NewestToken
  /\ TruthyObj(svc["store"].tokens)
  /\ svc["store"].tokens.access_token = NewestToken
  /\ TruthyNum(svc["store"].tokens.expires_in)

\* part_001 has written that response, which carries expires_in, to localStorage
ServiceStoredTokens ==
  /\ variant = "direct"
  /\ TokenResponseAccepted
  /\ TruthyObj(localStorage.keycloak_tokens)
  /\ localStorage.keycloak_tokens.access_token = NewestToken
  /\ TruthyNum(localStorage.keycloak_tokens.expires_in)

\* C19: when a token response with expires_in = n has been accepted in a step at
\* time T, the expiry kept for it is T + n * 1000: tokenExpiresAt of the store
\* that took the tokens, and the keycloak_token_expiry entry part_001 wrote.
C19_ExpiryIsNowPlusLifetime ==
  /\ StoreTookTokens =>
       store.tokenExpiresAt = now + svc["store"].tokens.expires_in * 1000
  /\ ServiceStoredTokens =>
       localStorage.keycloak_token_expiry =
         toString(now + localStorage.keycloak_tokens.expires_in * 1000)

\* a refresh response with expires_in = 300 has been taken into the store after
\* the clock had advanced
C19_Witness ==
  /\ StoreTookTokens
  /\ ended.kind = "refresh"
  /\ svc["store"].tokens.expires_in = 300
  /\ now > StartMs

KnownExpiries ==
  {e \in {store.tokenExpiresAt} : TruthyNum(e)}
    \cup {parseInt(x) : x \in {y \in {localStorage.auth_expires_at,
                                     localStorage.keycloak_token_expiry} :
                                 TruthyObj(y)}}

\* C21: a step that accepts no token response (of an exchange or a refresh)
\* computes no expiry: every expiry held after it, in memory or in the durable
\* store, was held before it.  Loading the stored session again leaves the
\* expiry as it was stored.
C21_ExpiryOnlyFromTokenResponse ==
  [][~TokenResponseAccepted' => KnownExpiries' \subseteq KnownExpiries]_vars

\* the tokens of the generations before the newest one
OlderTokens == {TokenNames[g] : g \in 1..idp.issued}

\* the store's call of refreshToken has been answered with a new token response
\* in the step
StoreRefreshAccepted ==
  /\ variant \in {"proxy", "direct"}
  /\ ended.kind = "refresh"
  /\ ended.ok

\* C22: when a refresh has succeeded, the access token in memory and in the
\* durable store is the new one; no refresh token, ID token or user claims of an
\* older token response are left in memory or in the durable entries (those of
\* the store and those of part_001); and the expiry, in memory and durable, is
\* the one computed from the new response when it carries expires_in.
C22_RefreshReplacesEverything ==
  StoreRefreshAccepted =>
    /\ store.accessToken = NewestToken
    /\ store.refreshToken \notin OlderTokens
    /\ store.idToken \notin OlderTokens
    /\ TruthyObj(store.user) => store.user.email \notin OlderTokens
    /\ TruthyNum(svc["store"].tokens.expires_in) =>
         /\ store.tokenExpiresAt = now + svc["store"].tokens.expires_in * 1000
         /\ localStorage.auth_expires_at = toString(store.tokenExpiresAt)
    /\ TruthyObj(localStorage.auth_tokens)
    /\ localStorage.auth_tokens.access_token = NewestToken
    /\ localStorage.auth_tokens.refresh_token \notin OlderTokens
    /\ localStorage.auth_tokens.id_token \notin OlderTokens
    /\ TruthyObj(localStorage.auth_user) =>
         localStorage.auth_user.email \notin OlderTokens
    /\ TruthyObj(localStorage.keycloak_tokens) =>
         localStorage.keycloak_tokens.access_token \notin OlderTokens

\* the store has created its service and no call is waiting for the service's
\* configuration any more
ConfigurationResolved ==
  /\ keycloakService # NULL
  /\ \A c \in CallIds : frames[c].pc # "config"

\* C23: in the applications with a store, a step that sends a token-exchange,
\* token-refresh or user-info request, or that sends the page to the
\* authorization or the logout endpoint, leaves no resolution of the
\* configuration pending: the resolution completed in that step or before it.
C23_NothingStartsBeforeConfiguration ==
  [][(/\ variant \in {"proxy", "direct"}
      /\ \/ Sent("exchange")' > Sent("exchange")
         \/ Sent("refresh")' > Sent("refresh")
         \/ Sent("userinfo")' > Sent("userinfo")
         \/ page = "loaded" /\ page' # "loaded")
     => ConfigurationResolved']_vars

ConfigurationError == "Unable to load authentication configuration"

\* the fetch of the configuration that initialize() of src/stores/authStore.js
\* was waiting for has failed, and initialize() has run to its end in the step
InitializeLostConfiguration ==
  /\ variant = "proxy"
  /\ ended.op = "initialize"
  /\ ended.kind = "config"
  /\ ~ended.ok

\* C24: in src/stores/authStore.js, when the configuration could not be loaded,
\* initialize() ends with the configuration error (thrown, or left in the error
\* slot); and as long as the service has no configuration, no step sends a
\* user-info request or sends the page to an endpoint of the identity provider
\* (the requests and redirects whose URL is built from the configuration).
C24_NoConfigurationFailsInitialize ==
  [][variant = "proxy" =>
       /\ InitializeLostConfiguration' =>
            \/ ended'.st = "throw"
            \/ store'.error = ConfigurationError
       /\ ~TruthyObj(svc'["store"].config) =>
            /\ Sent("userinfo")' = Sent("userinfo")
            /\ page' = page]_vars

\* the step is a call of clearError()
ClearErrorCalled == started'["clearError"] > started["clearError"]

\* C25: a call of clearError() sets the error of the store to null and leaves
\* every other field of the store (isAuthenticated, the tokens, the expiry, the
\* user), localStorage, sessionStorage, the service instances and the armed
\* timers as they were.
C25_ClearErrorOnlyEmptiesError ==
  [][ClearErrorCalled =>
       /\ store' = [store EXCEPT !.error = NULL]
       /\ UNCHANGED <<localStorage, sessionStorage, timers, svc,
                      keycloakService, page, url, href>>]_vars

\* clearError() was called after a login of the page had failed, which had set
\* the error
C25_Witness ==
  /\ ended.op = "clearError"
  /\ started["login"] + started["loginWithGoogle"] = 1
  /\ thrown # {}
  /\ store.error = NULL

\* the login calls made in the page, and whether one of them is still running
LoginsStarted == started["login"] + started["loginWithGoogle"]
LoginPending ==
  \E c \in CallIds : frames[c].op \in {"login", "loginWithGoogle"}

\* C26: when login was called twice in a page that processed no callback and
\* both calls have sent the page to the identity provider, the pending
\* authorization in sessionStorage is that of the second call; and on the
\* callback page loaded after two such calls, a callback that carries the state
\* of the first call has no token-exchange request sent for it, one that
\* carries the state of the second call has its exchange accepted when the
\* token endpoint answers.
C26_SecondLoginWins ==
  /\ (/\ page = "login"
      /\ LoginsStarted = 2
      /\ ~LoginPending
      /\ idp.requested = {1, 2})
       => /\ sessionStorage.keycloak_state = StateNames[3]
          /\ sessionStorage.keycloak_code_verifier = VerifierNames[3]
  /\ (/\ page = "loaded"
      /\ LoginsStarted = 0
      /\ scenario.cb # "none")
       => /\ (url.state = StateNames[2] /\ idp.requested = {2})
               => Sent("exchange") = 0
          /\ (url.state = StateNames[3] /\ idp.requested = {1})
               => (ended.kind = "exchange" => ended.ok)

\* C27: whatever options login or loginWithGoogle was given, the authorization
\* URL the page is sent to carries response_type=code, scope=openid profile
\* email and code_challenge_method=S256.
C27_AuthorizationUrlParameters ==
  (page = "login" /\ href # NONE) =>
    /\ href.response_type = "code"
    /\ href.scope = "openid profile email"
    /\ href.code_challenge_method = "S256"

\* C28: in the stores, a step that changes the user either leaves it null (the
\* session was cleared) or took a TokenSet into the store in the same step, from
\* a token response or, on resume, from the durable store.
C28_UserOnlyFromTokenSet ==
  [][(variant \in {"proxy", "direct"} /\ store'.user # store.user) =>
       \/ store'.user = NONE
       \/ store'.accessToken # store.accessToken]_vars

\* setTokens has taken into the store the tokens of the response the step
\* handled, and that response carries no expires_in
StoreTookTokensWithoutLifetime ==
  /\ variant \in {"proxy", "direct"}
  /\ TokenResponseAccepted
  /\ store.accessToken = NewestToken
  /\ TruthyObj(svc["store"].tokens)
  /\ svc["store"].tokens.access_token = NewestToken
  /\ ~TruthyNum(svc["store"].tokens.expires_in)

\* C29: when the store has taken a token response without expires_in, its
\* tokenExpiresAt is the exp claim of the new access token in milliseconds; the
\* identity provider issued the token in this step, so the claim is the present
\* time plus one of the token lifetimes.
C29_ExpiryFromExpClaim ==
  StoreTookTokensWithoutLifetime =>
    store.tokenExpiresAt \in {now + l * 1000 : l \in ExpiresInValues}

\* C30: in every state between two blocks of code of the stores, the access
\* token and the user are both set or both null.
C30_TokenAndUserTogether ==
  variant \in {"proxy", "direct"} =>
    (Truthy(store.accessToken) <=> TruthyObj(store.user))

\* the instance whose call handled the response of the step
EndedInstance == IF ended.op = "init" THEN "singleton" ELSE "store"

\* part_001: the step handled the successful exchange of the callback
DirectExchangeAccepted ==
  /\ variant = "direct"
  /\ ended.op \in {"init", "initialize"}
  /\ ended.kind = "exchange"
  /\ ended.ok

\* C31: when an instance of part_001 has exchanged the code of the callback, an
\* instance whose init() had already ended (it found the global flag set and
\* skipped the callback) holds the exchanged tokens as well.
C31_SkippingInstanceSharesResult ==
  DirectExchangeAccepted =>
    \A i \in Instances :
      svc[i].isInitialized => svc[i].tokens = svc[EndedInstance].tokens

\* a token exchange of the callback is in flight
ExchangeInFlight == \E c \in CallIds : KindOf(frames[c].pc) = "exchange"

\* C32: with part_001, the global callback-processing flag is true exactly while
\* a token exchange of the callback is in flight: it is set when the exchange
\* starts and is false once the processing has succeeded or failed.
C32_FlagOnlyWhileExchanging ==
  variant = "direct" => (globalCallbackProcessing <=> ExchangeInFlight)

\* the exchange the flag was set for has been rejected in the step, and the
\* flag is false again
C32_Witness ==
  /\ variant = "direct"
  /\ ended.kind = "exchange"
  /\ ~ended.ok
  /\ "Token exchange failed" \in thrown
  /\ ~globalCallbackProcessing

\* the step sent the page to the authorization endpoint
Redirected == href' # NONE /\ href' # href

\* C33: in the step in which a login sends the page to the authorization
\* endpoint, whatever the other login calls did and whatever options it was
\* given, sessionStorage holds the state that is in the URL and the code
\* verifier whose S256 challenge is in the URL.
C33_RedirectMatchesPendingAuthorization ==
  [][Redirected =>
       /\ sessionStorage'.keycloak_state = href'.state
       /\ href'.code_challenge =
            generateCodeChallenge(sessionStorage'.keycloak_code_verifier)]_vars

\* the step handled the failure of a token refresh of the store
StoreRefreshFailed ==
  /\ variant = "proxy"
  /\ ended.kind = "refresh"
  /\ ~ended.ok

\* C34: the step in which a token refresh of the store fails leaves the page
\* where it is: the browser is not sent to the logout endpoint of Keycloak,
\* whether the refresh was started by a timer, by a caller or by initialize().
C34_FailedRefreshDoesNotRedirect ==
  [][StoreRefreshFailed' => page' = page]_vars

\* the step ended a call of initialize() or handleAuthCallback() of
\* src/stores/authStore.js with a failure: handleAuthCallback() rethrows what it
\* caught, initialize() lost the configuration
StoreCallFailed ==
  /\ variant = "proxy"
  /\ \/ ended.op = "handleAuthCallback" /\ ended.st = "throw"
     \/ ended.op = "initialize" /\ ended.kind = "config" /\ ~ended.ok

\* C35: when a call of initialize() or handleAuthCallback() has ended with a
\* failure, the error of the store holds a message.
C35_FailureLeavesMessage ==
  StoreCallFailed => store.error # NULL

\* C36: in every state of the stores, under every interleaving of their calls,
\* isAuthenticated is true only when an access token is held.
C36_AuthenticatedHoldsToken ==
  (variant \in {"proxy", "direct"} /\ store.isAuthenticated) =>
    Truthy(store.accessToken)

\* the page was loaded, without callback, after a logout() of the store had
\* completed in the page before
LoadedAfterLogout == scenario.stored = "loggedOut"

\* C37: on a page loaded without callback after logout() of
\* src/src/stores/authStore.js has completed, a call of initialize() made on its
\* own ends with isAuthenticated false and no access token in the store.
C37_LogoutSurvivesReload ==
  (/\ variant = "direct"
   /\ LoadedAfterLogout
   /\ Isolated("initialize")
   /\ InitializeEnded) => Unauthenticated

\* no call is waiting for a response and the store has been initialized
StoreAtRest ==
  /\ page = "loaded"
  /\ store.isInitialized
  /\ \A c \in CallIds : frames[c].op = "idle"

\* localStorage holds the session the store holds in memory: the three tokens,
\* the expiry (both unset, or the same number) and the user
StoredSessionIsMemory ==
  /\ localStorage.auth_tokens =
       [access_token |-> store.accessToken,
        refresh_token |-> store.refreshToken,
        id_token |-> store.idToken]
  /\ IF TruthyObj(localStorage.auth_expires_at)
     THEN parseInt(localStorage.auth_expires_at) = store.tokenExpiresAt
     ELSE ~TruthyNum(store.tokenExpiresAt)
  /\ localStorage.auth_user = store.user

\* C38: when no call of an initialized store is in flight: with
\* src/stores/authStore.js, localStorage holds a token entry exactly when the
\* store holds an access token, and then the stored tokens, expiry and user are
\* those in memory; with part_001, a keycloak_tokens entry holds the access
\* token that is in memory.
C38_DurableStoreMirrorsMemory ==
  /\ (variant = "proxy" /\ StoreAtRest) =>
       /\ TruthyObj(localStorage.auth_tokens) <=> Truthy(store.accessToken)
       /\ Truthy(store.accessToken) => StoredSessionIsMemory
  /\ (variant = "direct" /\ StoreAtRest
        /\ TruthyObj(localStorage.keycloak_tokens)) =>
       localStorage.keycloak_tokens.access_token = store.accessToken

\* C39: a call of initialize() that has completed, with success or with a
\* failure, leaves the in-progress indicator of its store false (isLoading in
\* src/stores/authStore.js, isInitializing in src/src/stores/authStore.js) and
\* isInitialized true; init() of src/src/services/csp-safe-keycloak.js that has
\* failed leaves isInitialized of the service true.
C39_InitializeCompletesWithFlags ==
  /\ (variant = "proxy" /\ InitializeEnded) =>
       ~store.isLoading /\ store.isInitialized
  /\ (variant = "direct" /\ InitializeEnded) =>
       ~store.isInitializing /\ store.isInitialized
  /\ (variant = "standalone" /\ ended.op = "init" /\ ended.st = "throw") =>
       svc["singleton"].isInitialized

====
